---------------------------- MODULE Spec2Model ----------------------------
(***************************************************************************)
(* A model of cloudinit/config/cc_resizefs.py (cloud-init 0.7.9): the      *)
(* handle() entry point, the root device resolver, the dispatch table and  *)
(* the UFS pre-check.  Python strings are TLA+ strings, read character by  *)
(* character with Len, SubSeq and \o.  Python's None is the string None,   *)
(* which holds characters ('<', '>') no modelled input contains.           *)
(***************************************************************************)
EXTENDS Integers, Sequences, FiniteSets, TLC

VARIABLES
    args,         \* handle(): the override arguments (a sequence of mode values)
    cfg,          \* handle(): the configuration, a sequence of <<key, value>> pairs
    resize_root,  \* handle(): the effective mode value
    pc,           \* position of the running function
    result,       \* handle(): what util.get_mount_info returned (<<>> or a triple)
    devpth,       \* device path
    fs_type,      \* filesystem type of the mount
    container,    \* handle(): util.is_container()
    cmdline,      \* the kernel command line
    statret,      \* handle(): the st_mode kind os.stat returned
    dumpfs_res,   \* _can_skip_resize_ufs: stdout of dumpfs -m
    gpart_res,    \* _can_skip_resize_ufs: stdout of gpart show
    skip,         \* the pre-check's result, or the exception it raised
    resize_cmd,   \* handle(): the command the dispatch rule built
    trace,        \* collaborator calls and log records, in order
    writable,     \* handle(): what os.access(devpth, W_OK) answered
    outcome,      \* handle(): "running", "returned" or the exception raised
    child,        \* the forked worker: "none", "forked", "running", "ok", "failed"
    disk,         \* environment: the root disk the tools describe
    boot          \* environment: the kernel's boot parameters

vars == <<args, cfg, resize_root, pc, result, devpth, fs_type, container,
          cmdline, statret, dumpfs_res, gpart_res, skip, resize_cmd, trace,
          writable, outcome, child, disk, boot>>

None == "<None>"

----------------------------------------------------------------------------
(* Python string methods                                                   *)

startswith(s, p) == Len(s) >= Len(p) /\ SubSeq(s, 1, Len(p)) = p

\* s[n:]
SliceFrom(s, n) == IF n >= Len(s) THEN "" ELSE SubSeq(s, n + 1, Len(s))

IsSpace(c) == c \in {" ", "\t", "\n"}

RECURSIVE WordLen(_)
WordLen(s) ==
    IF s = "" \/ IsSpace(Head(s)) THEN 0 ELSE 1 + WordLen(Tail(s))

\* str.split() with no separator: runs of whitespace separate the words
RECURSIVE split(_)
split(s) ==
    IF s = "" THEN <<>>
    ELSE IF IsSpace(Head(s)) THEN split(Tail(s))
    ELSE LET n == WordLen(s) IN <<SubSeq(s, 1, n)>> \o split(SliceFrom(s, n))

UpperCase == "ABCDEFGHIJKLMNOPQRSTUVWXYZ"
LowerCase == "abcdefghijklmnopqrstuvwxyz"

LowerChar(c) ==
    IF \E i \in 1..Len(UpperCase) : SubSeq(UpperCase, i, i) = c
    THEN LET i == CHOOSE i \in 1..Len(UpperCase) : SubSeq(UpperCase, i, i) = c
         IN  SubSeq(LowerCase, i, i)
    ELSE c

RECURSIVE lower(_)
lower(s) == IF s = "" THEN "" ELSE LowerChar(Head(s)) \o lower(Tail(s))

----------------------------------------------------------------------------
(* rootdev_from_cmdline                                                    *)

\* FirstRootTok without its break: the last root= token is used
RECURSIVE FirstRootTok_last(_)
FirstRootTok_last(toks) ==
    IF toks = <<>> THEN None
    ELSE LET later == FirstRootTok_last(Tail(toks))
         IN  IF later # None THEN later
             ELSE IF startswith(Head(toks), "root=") THEN SliceFrom(Head(toks), 5)
             ELSE None

RECURSIVE FirstRootTok(_)
FirstRootTok(toks) ==
    IF toks = <<>> THEN None
    ELSE IF startswith(Head(toks), "root=") THEN SliceFrom(Head(toks), 5)
    ELSE FirstRootTok(Tail(toks))

rootdev_from_cmdline(line) ==
    LET found == FirstRootTok(split(line)) IN
    IF found = None THEN None
    ELSE IF startswith(found, "/dev/") THEN found
    ELSE IF startswith(found, "LABEL=")
         THEN "/dev/disk/by-label/" \o SliceFrom(found, Len("LABEL="))
    ELSE IF startswith(found, "UUID=")
         THEN "/dev/disk/by-uuid/" \o SliceFrom(found, Len("UUID="))
    ELSE "/dev/" \o found

----------------------------------------------------------------------------
(* Library functions _can_skip_resize_ufs calls: str.splitlines,           *)
(* shlex.split, getopt.getopt, int, re.search.  A result that may be an    *)
(* exception is a record whose err field names the exception ("" if none). *)

NoInt == <<>>     \* None, for a variable that otherwise holds an integer

RECURSIVE LineLen(_)
LineLen(s) == IF s = "" \/ Head(s) = "\n" THEN 0 ELSE 1 + LineLen(Tail(s))

RECURSIVE splitlines(_)
splitlines(s) ==
    IF s = "" THEN <<>>
    ELSE LET n == LineLen(s) IN <<SubSeq(s, 1, n)>> \o splitlines(SliceFrom(s, n + 1))

\* shlex.split of a line without quotes, backslashes or other shell syntax
shlex_split(line) == split(line)

\* getopt.short_has_arg: "yes", "no" or "GetoptError" (option not recognized)
short_has_arg(opt, shortopts) ==
    LET hits == {i \in 1..Len(shortopts) :
                    SubSeq(shortopts, i, i) = opt /\ opt # ":"}
    IN  IF hits = {} THEN "GetoptError"
        ELSE LET i == CHOOSE i \in hits : \A j \in hits : i <= j
             IN  IF i < Len(shortopts) /\ SubSeq(shortopts, i + 1, i + 1) = ":"
                 THEN "yes" ELSE "no"

RECURSIVE do_shorts(_, _, _, _)
do_shorts(opts, optstring, shortopts, rest) ==
    IF optstring = "" THEN [err |-> "", opts |-> opts, args |-> rest]
    ELSE LET opt == Head(optstring)
             os  == Tail(optstring)
             has == short_has_arg(opt, shortopts)
         IN  IF has = "GetoptError"
             THEN [err |-> "GetoptError", opts |-> opts, args |-> rest]
             ELSE IF has = "yes"
             THEN IF os = ""
                  THEN IF rest = <<>>
                       THEN [err |-> "GetoptError", opts |-> opts, args |-> rest]
                       ELSE [err |-> "",
                             opts |-> Append(opts, <<"-" \o opt, Head(rest)>>),
                             args |-> Tail(rest)]
                  ELSE [err |-> "",
                        opts |-> Append(opts, <<"-" \o opt, os>>),
                        args |-> rest]
             ELSE do_shorts(Append(opts, <<"-" \o opt, "">>), os, shortopts, rest)

\* getopt.getopt(args, shortopts) with no long options
RECURSIVE getopt_loop(_, _, _)
getopt_loop(opts, rest, shortopts) ==
    IF rest # <<>> /\ startswith(Head(rest), "-") /\ Head(rest) # "-"
    THEN IF Head(rest) = "--"
         THEN [err |-> "", opts |-> opts, args |-> Tail(rest)]
         ELSE IF startswith(Head(rest), "--")
         THEN [err |-> "GetoptError", opts |-> opts, args |-> rest]
         ELSE LET r == do_shorts(opts, SliceFrom(Head(rest), 1), shortopts, Tail(rest))
              IN  IF r.err # "" THEN r ELSE getopt_loop(r.opts, r.args, shortopts)
    ELSE [err |-> "", opts |-> opts, args |-> rest]

getopt(arglist, shortopts) == getopt_loop(<<>>, arglist, shortopts)

Digits == "0123456789"

IsDigit(c) == \E i \in 1..Len(Digits) : SubSeq(Digits, i, i) = c

DigitVal(c) == (CHOOSE i \in 1..Len(Digits) : SubSeq(Digits, i, i) = c) - 1

RECURSIVE AllDigits(_)
AllDigits(s) == s = "" \/ (IsDigit(Head(s)) /\ AllDigits(Tail(s)))

RECURSIVE DigitsVal(_, _)
DigitsVal(s, acc) ==
    IF s = "" THEN acc ELSE DigitsVal(Tail(s), 10 * acc + DigitVal(Head(s)))

\* int(a) of a string: an optional sign, then decimal digits
int(a) ==
    LET signed == startswith(a, "-") \/ startswith(a, "+")
        body   == IF signed THEN Tail(a) ELSE a
    IN  IF body = "" \/ ~AllDigits(body)
        THEN [err |-> "ValueError", val |-> 0]
        ELSE [err |-> "",
              val |-> IF startswith(a, "-") THEN 0 - DigitsVal(body, 0)
                      ELSE DigitsVal(body, 0)]

\* re.search(pattern, s) for a pattern of plain characters
Contains(s, sub) ==
    \E i \in 1..(Len(s) - Len(sub) + 1) : SubSeq(s, i, i + Len(sub) - 1) = sub

\* re.search('^(/dev/.+)p([0-9])$', devpth): group(1), or None without a match
DiskOfPartition(path) ==
    IF /\ Len(path) >= 8
       /\ startswith(path, "/dev/")
       /\ SubSeq(path, Len(path) - 1, Len(path) - 1) = "p"
       /\ IsDigit(SubSeq(path, Len(path), Len(path)))
    THEN SubSeq(path, 1, Len(path) - 2)
    ELSE None

----------------------------------------------------------------------------
(* _can_skip_resize_ufs                                                    *)

opt_value == "O:Ua:s:b:d:e:f:g:h:i:jk:m:o:"

SectorBytes == 512

\* for o, a in optlist: if o == "-s": cur_fs_sz = int(a); if o == "-f": ...
RECURSIVE ScanOptlist(_, _)
ScanOptlist(optlist, st) ==
    IF optlist = <<>> \/ st.err # "" THEN st
    ELSE LET o  == Head(optlist)[1]
             a  == Head(optlist)[2]
             n  == int(a)
             s1 == IF o = "-s"
                   THEN IF n.err # "" THEN [st EXCEPT !.err = n.err]
                        ELSE [st EXCEPT !.cur_fs_sz = <<n.val>>]
                   ELSE st
             s2 == IF o = "-f" /\ s1.err = ""
                   THEN IF n.err # "" THEN [s1 EXCEPT !.err = n.err]
                        ELSE [s1 EXCEPT !.frag_sz = <<n.val>>]
                   ELSE s1
         IN  ScanOptlist(Tail(optlist), s2)

\* the body of "for line in dumpfs_res.splitlines()" for one line
ScanDumpfsLine(line, st) ==
    IF startswith(line, "#") THEN st
    ELSE LET newfs_cmd == shlex_split(line)
             g == getopt(IF newfs_cmd = <<>> THEN <<>> ELSE Tail(newfs_cmd),
                         opt_value)
         IN  IF g.err # "" THEN [st EXCEPT !.err = g.err]
             ELSE ScanOptlist(g.opts, st)

\* ScanDumpfs with a break after the first non-comment line
RECURSIVE ScanDumpfs_first(_, _)
ScanDumpfs_first(lines, st) ==
    IF lines = <<>> THEN st
    ELSE IF startswith(Head(lines), "#") THEN ScanDumpfs_first(Tail(lines), st)
    ELSE ScanDumpfsLine(Head(lines), st)

\* for line in dumpfs_res.splitlines(): every line is read, none ends the loop
RECURSIVE ScanDumpfs(_, _)
ScanDumpfs(lines, st) ==
    IF lines = <<>> \/ st.err # "" THEN st
    ELSE ScanDumpfs(Tail(lines), ScanDumpfsLine(Head(lines), st))

\* for line in gpart_res.splitlines(): if re.search(r"freebsd-ufs", line): ...
RECURSIVE ScanGpart(_, _)
ScanGpart(lines, st) ==
    IF lines = <<>> \/ st.err # "" THEN st
    ELSE LET line   == Head(lines)
             fields == split(line)
             n      == int(fields[2])
         IN  IF ~Contains(line, "freebsd-ufs") THEN ScanGpart(Tail(lines), st)
             ELSE IF Len(fields) < 2 THEN [st EXCEPT !.err = "IndexError"]
             ELSE IF n.err # "" THEN [st EXCEPT !.err = n.err]
             ELSE ScanGpart(Tail(lines), [st EXCEPT !.expect_sz = <<n.val>>])

Abs(n) == IF n < 0 THEN 0 - n ELSE n

RECURSIVE Gcd(_, _)
Gcd(a, b) == IF b = 0 THEN a ELSE Gcd(b, a % b)

\* a / b of two integers, b > 0: true division, as a reduced fraction <<num, den>>
TrueDiv(a, b) == LET g == Gcd(Abs(a), b) IN <<a \div g, b \div g>>

\* u % n of Python integers, n # 0: the result has the sign of n
FloorMod(u, n) == IF n > 0 THEN u % n ELSE 0 - ((0 - u) % (0 - n))

\* normal_expect_sz without the normalization
normal_expect_sz_raw(expect_sz, q) == <<expect_sz * q[2], q[2]>>

\* expect_sz - expect_sz % q, for a fraction q = <<num, den>>, num # 0:
\* x % (num/den) = ((x * den) % num) / den
normal_expect_sz(expect_sz, q) ==
    <<expect_sz * q[2] - FloorMod(expect_sz * q[2], q[1]), q[2]>>

\* normal_expect_sz == cur_fs_sz, a number against an integer or None
EqualsSize(normal, cur_fs_sz) ==
    cur_fs_sz # NoInt /\ normal[1] = cur_fs_sz[1] * normal[2]

\* The part of _can_skip_resize_ufs after both outputs are read.
Normalize(st) ==
    IF st.frag_sz = NoInt \/ st.expect_sz = NoInt THEN "TypeError"
    ELSE IF st.frag_sz[1] = 0 THEN "ZeroDivisionError"
    ELSE IF EqualsSize(normal_expect_sz(st.expect_sz[1],
                                        TrueDiv(st.frag_sz[1], SectorBytes)),
                       st.cur_fs_sz)
         THEN "True" ELSE "False"

Failed == "<ProcessExecutionError>"   \* util.subp raised instead of returning

\* _can_skip_resize_ufs(mount_point, devpth), given what dumpfs -m and gpart
\* show print: "True", "False", or the name of the exception raised.  gpart
\* is only run when the device path matched the partition pattern.
can_skip_resize_ufs(dumpfs_out, path, gpart_out) ==
    LET st0 == [err |-> "", cur_fs_sz |-> NoInt, frag_sz |-> NoInt,
                expect_sz |-> NoInt]
    IN  IF dumpfs_out = Failed THEN "ProcessExecutionError"
        ELSE LET st1 == ScanDumpfs(splitlines(dumpfs_out), st0)
             IN  IF st1.err # "" THEN st1.err
                 ELSE IF DiskOfPartition(path) = None THEN "AttributeError"
                 ELSE IF gpart_out = Failed THEN "ProcessExecutionError"
                 ELSE LET st2 == ScanGpart(splitlines(gpart_out), st1)
                      IN  IF st2.err # "" THEN st2.err ELSE Normalize(st2)

RESIZE_FS_PRECHECK_CMDS == <<"ufs">>

\* for i, func in RESIZE_FS_PRECHECK_CMDS.items(): if fstype_lc.startswith(i)
PrecheckFor(fstype) ==
    LET fstype_lc == lower(fstype)
        hits == {i \in 1..Len(RESIZE_FS_PRECHECK_CMDS) :
                    startswith(fstype_lc, RESIZE_FS_PRECHECK_CMDS[i])}
    IN  IF hits = {} THEN None
        ELSE RESIZE_FS_PRECHECK_CMDS[CHOOSE i \in hits : \A j \in hits : i <= j]

\* can_skip_resize: the one registered pre-check is the UFS one
can_skip_resize(fstype, dumpfs_out, path, gpart_out) ==
    IF PrecheckFor(fstype) # None
    THEN can_skip_resize_ufs(dumpfs_out, path, gpart_out)
    ELSE "False"

----------------------------------------------------------------------------
(* The tools' output.  disk describes what is on the root disk: one record *)
(* per line dumpfs -m prints besides its '#' header, and the size of the   *)
(* freebsd-ufs partition in the partition table (NoInt: no such line).     *)

RECURSIVE StrDigits(_)
StrDigits(n) ==
    IF n < 10 THEN SubSeq(Digits, n + 1, n + 1)
    ELSE StrDigits(n \div 10) \o SubSeq(Digits, (n % 10) + 1, (n % 10) + 1)

\* str(n)
Str(n) == IF n < 0 THEN "-" \o StrDigits(0 - n) ELSE StrDigits(n)

\* one output line of dumpfs -m: the newfs command that recreates the filesystem
NewfsLine(l) ==
    IF l.kind = "blank" THEN ""
    ELSE IF l.kind = "bad" THEN "newfs -Z 2 /dev/label/rootfs"
    ELSE "newfs -O 2 -U -a 4 -b 32768"
         \o (IF l.f = NoInt THEN "" ELSE " -f " \o Str(l.f[1]))
         \o " -j -o time"
         \o (IF l.s = NoInt THEN "" ELSE " -s " \o Str(l.s[1]))
         \o " /dev/label/rootfs"

RECURSIVE JoinLines(_)
JoinLines(ls) == IF ls = <<>> THEN "" ELSE Head(ls) \o "\n" \o JoinLines(Tail(ls))

\* _get_dumpfs_output
DumpfsOutput(d) ==
    "# newfs command for / (/dev/label/rootfs)\n"
    \o JoinLines([i \in 1..Len(d.newfs) |-> NewfsLine(d.newfs[i])])

\* _get_gpart_output
GpartOutput(d) ==
    "=>      40  62914480  da0  GPT  (30G)\n"
    \o "        40      1024    1  freebsd-boot  (512K)\n"
    \o (IF d.ufs_size = NoInt THEN ""
        ELSE "      1064  " \o Str(d.ufs_size[1]) \o "    2  freebsd-ufs  (28G)\n")
    \o "  58720296   3145728    3  freebsd-swap  (1.5G)\n"

----------------------------------------------------------------------------
(* The environment's inputs                                                *)

MaxToks == 2      \* boot parameters on the kernel command line
MaxLines == 2     \* lines dumpfs -m prints after its '#' header

\* a boot parameter: <<word>> or <<key, value>>, printed as word or key=value
BootParams ==
    { <<"ro">>, <<"quiet">>,
      <<"root", "/dev/vda1">>, <<"root", "LABEL=cloudimg-rootfs">>,
      <<"root", "UUID=9e2b">>, <<"root", "da0p2">>, <<"root", "">>,
      <<"root", "LABEL">>, <<"root", "/dev">>, <<"xroot", "/dev/sdb">> }

SeqsUpTo(S, n) == UNION { [1..k -> S] : k \in 0..n }

Boots == [params : SeqsUpTo(BootParams, MaxToks), style : {"plain", "padded"}]

RenderParam(p) == IF Len(p) = 1 THEN p[1] ELSE p[1] \o "=" \o p[2]

RECURSIVE JoinWords(_, _)
JoinWords(ws, sep) ==
    IF ws = <<>> THEN ""
    ELSE IF Len(ws) = 1 THEN Head(ws)
    ELSE Head(ws) \o sep \o JoinWords(Tail(ws), sep)

\* util.get_cmdline(): the contents of /proc/cmdline
get_cmdline(b) ==
    LET ws == [i \in 1..Len(b.params) |-> RenderParam(b.params[i])]
    IN  IF b.style = "plain" THEN JoinWords(ws, " ")
        ELSE " " \o JoinWords(ws, "  ") \o "\n"

CurSizes == {58719232, 58720000}
FragSizes == {4096, 512}
PartSizes == {58719232, 58719239, 58720000}

Opt(S) == {NoInt} \cup { <<n>> : n \in S }

NewfsLines ==
    [kind : {"newfs"}, s : Opt(CurSizes), f : Opt(FragSizes)]
    \cup { [kind |-> "blank", s |-> NoInt, f |-> NoInt],
           [kind |-> "bad", s |-> NoInt, f |-> NoInt] }

Disks == [newfs : SeqsUpTo(NewfsLines, MaxLines), ufs_size : Opt(PartSizes)]

UfsDevices == {"/dev/da0p2", "/dev/label/rootfs"}

NoDisk == [newfs |-> <<>>, ufs_size |-> NoInt]
NoBoot == [params |-> <<>>, style |-> "plain"]

\* every variable of handle() before handle() is called
HandleIdle ==
    /\ args = <<>> /\ cfg = <<>> /\ resize_root = None /\ result = <<>>
    /\ fs_type = None /\ container = FALSE /\ statret = None
    /\ resize_cmd = <<>> /\ trace = <<>> /\ writable = None
    /\ outcome = "running" /\ child = "none"

----------------------------------------------------------------------------
(* SpecRootdev: rootdev_from_cmdline applied to a kernel command line      *)

InitRootdev ==
    /\ HandleIdle
    /\ boot \in Boots
    /\ cmdline = get_cmdline(boot)
    /\ devpth = None
    /\ pc = "rootdev_from_cmdline"
    /\ disk = NoDisk /\ dumpfs_res = None /\ gpart_res = None /\ skip = None

RootdevCall ==
    /\ pc = "rootdev_from_cmdline"
    /\ devpth' = rootdev_from_cmdline(cmdline)
    /\ pc' = "rootdev_done"
    /\ UNCHANGED <<args, cfg, resize_root, result, fs_type, container, cmdline,
                   statret, dumpfs_res, gpart_res, skip, resize_cmd, trace,
                   writable, outcome, child, disk, boot>>

NextRootdev == RootdevCall

SpecRootdev == InitRootdev /\ [][NextRootdev]_vars

----------------------------------------------------------------------------
(* SpecUfs: _can_skip_resize_ufs applied to a device and a disk            *)

InitUfs ==
    /\ HandleIdle
    /\ disk \in Disks
    /\ devpth \in UfsDevices
    /\ pc = "_can_skip_resize_ufs"
    /\ boot = NoBoot /\ cmdline = None
    /\ dumpfs_res = None /\ gpart_res = None /\ skip = None

\* whether _can_skip_resize_ufs gets as far as running gpart show
ReachesGpart(dumpfs_out, path) ==
    /\ dumpfs_out # Failed
    /\ ScanDumpfs(splitlines(dumpfs_out),
                  [err |-> "", cur_fs_sz |-> NoInt, frag_sz |-> NoInt,
                   expect_sz |-> NoInt]).err = ""
    /\ DiskOfPartition(path) # None

UfsCall ==
    /\ pc = "_can_skip_resize_ufs"
    /\ LET printed_d == DumpfsOutput(disk)
           printed_g == GpartOutput(disk)
       IN
       \E dumpfs_ok \in BOOLEAN, gpart_ok \in BOOLEAN :
          LET dout == IF dumpfs_ok THEN printed_d ELSE Failed
              gout == IF gpart_ok THEN printed_g ELSE Failed
          IN  /\ dumpfs_res' = dout
              /\ gpart_res' = IF ReachesGpart(dout, devpth) THEN gout ELSE None
              /\ skip' = can_skip_resize_ufs(dout, devpth, gout)
    /\ pc' = "ufs_done"
    /\ UNCHANGED <<args, cfg, resize_root, result, devpth, fs_type, container,
                   cmdline, statret, resize_cmd, trace, writable, outcome,
                   child, disk, boot>>

NextUfs == UfsCall

SpecUfs == InitUfs /\ [][NextUfs]_vars

----------------------------------------------------------------------------
(* handle(): helpers                                                       *)

NOBLOCK == "noblock"

\* the dispatch rules: <<prefix, builder>>
RESIZE_FS_PREFIXES_CMDS ==
    << <<"btrfs", "_resize_btrfs">>, <<"ext", "_resize_ext">>,
       <<"xfs", "_resize_xfs">>, <<"ufs", "_resize_ufs">> >>

resize_btrfs(mount_point, path) == <<"btrfs", "filesystem", "resize", "max", mount_point>>
resize_ext(mount_point, path) == <<"resize2fs", path>>
resize_xfs(mount_point, path) == <<"xfs_growfs", path>>
resize_ufs(mount_point, path) == <<"growfs", path>>

\* resizer(resize_what, devpth) for the builder a rule names
CallResizer(resizer, mount_point, path) ==
    CASE resizer = "_resize_btrfs" -> resize_btrfs(mount_point, path)
      [] resizer = "_resize_ext"   -> resize_ext(mount_point, path)
      [] resizer = "_resize_xfs"   -> resize_xfs(mount_point, path)
      [] resizer = "_resize_ufs"   -> resize_ufs(mount_point, path)

\* for (pfix, root_cmd) in RESIZE_FS_PREFIXES_CMDS: first match, or None
RECURSIVE ScanRules(_, _)
ScanRules(rules, fstype_lc) ==
    IF rules = <<>> THEN None
    ELSE IF startswith(fstype_lc, Head(rules)[1]) THEN Head(rules)[2]
    ELSE ScanRules(Tail(rules), fstype_lc)

\* LookupResizer without fs_type.lower()
LookupResizer_nolower(fstype) == ScanRules(RESIZE_FS_PREFIXES_CMDS, fstype)

LookupResizer(fstype) == ScanRules(RESIZE_FS_PREFIXES_CMDS, lower(fstype))

\* util.get_cfg_option_str: str() of the configured value, or of the default
get_cfg_option_str(c, key, default) ==
    IF \E i \in 1..Len(c) : c[i][1] = key
    THEN c[CHOOSE i \in 1..Len(c) : c[i][1] = key][2]
    ELSE default

\* util.translate_bool(val, addons): true, or one of the addons
translate_bool(val, addons) == val = "True" \/ val \in addons

\* EffectiveMode without the override arguments
EffectiveMode_cfgonly(a, c) == get_cfg_option_str(c, "resize_rootfs", "True")

\* if len(args) != 0: resize_root = args[0], else the configured value
EffectiveMode(a, c) ==
    IF Len(a) # 0 THEN a[1] ELSE get_cfg_option_str(c, "resize_rootfs", "True")

\* devpth == "/dev/root" and not os.path.exists(devpth) and not container
NeedsCmdline(path, exists, in_container) ==
    path = "/dev/root" /\ ~exists /\ ~in_container

\* StatErrorPolicy with a container that swallows every stat error
StatErrorPolicy_swallow(in_container, e) ==
    IF in_container THEN "debug"
    ELSE IF e = "ENOENT" THEN "warn"
    ELSE "raise"

\* what the except OSError clause does with errno e: "debug", "warn" or "raise"
StatErrorPolicy(in_container, e) ==
    IF in_container /\ e = "ENOENT" THEN "debug"
    ELSE IF e = "ENOENT" THEN "warn"
    ELSE "raise"

\* IsDevice without the device type test
IsDevice_any(mode) == TRUE

\* stat.S_ISBLK(st_mode) or stat.S_ISCHR(st_mode)
IsDevice(mode) == mode = "S_IFBLK" \/ mode = "S_IFCHR"

\* IsNoblock against a literal in the wrong case
IsNoblock_upper(mode) == mode = "NOBLOCK"

\* resize_root == NOBLOCK
IsNoblock(mode) == mode = NOBLOCK

\* log.debug in a container, log.warn outside
Level(in_container) == IF in_container THEN "debug" ELSE "warn"

\* do_resize without its raise
do_resize_swallow(ok, cmd) ==
    IF ok THEN [log |-> <<>>, raises |-> FALSE]
    ELSE [log |-> << <<"logexc", "Failed to resize filesystem", cmd>> >>,
          raises |-> FALSE]

\* do_resize once util.subp ended: the log record it adds, whether it raises
do_resize(ok, cmd) ==
    IF ok THEN [log |-> <<>>, raises |-> FALSE]
    ELSE [log |-> << <<"logexc", "Failed to resize filesystem", cmd>> >>,
          raises |-> TRUE]

Return(events) ==
    /\ trace' = trace \o events
    /\ outcome' = "returned"
    /\ pc' = "done"

Raise(events, exc) ==
    /\ trace' = trace \o events
    /\ outcome' = exc
    /\ pc' = "done"

Goto(events, label) ==
    /\ trace' = trace \o events
    /\ pc' = label
    /\ UNCHANGED outcome

Call(what) == <<"call", what, <<>>>>

----------------------------------------------------------------------------
(* handle(): inputs                                                        *)

Modes == {"True", "False", NOBLOCK}

ArgLists == {<<>>} \cup { <<m>> : m \in Modes }

Configs == {<<>>} \cup { << <<"resize_rootfs", m>> >> : m \in Modes }

FsTypes == {"ext2", "ext3", "ext4", "EXT4", "btrfs", "Btrfs", "xfs", "XFS",
            "ufs", "UFS", "zfs", "vfat", "ex", "next"}

MountDevices == {"/dev/root", "/dev/vda1", "/dev/da0p2"}

\* what util.get_mount_info("/") may return: (devpth, fs_type, mount_point)
MountResults == { <<d, t, "/">> : d \in MountDevices, t \in FsTypes }

StatResults == {"S_IFBLK", "S_IFCHR", "S_IFREG", "ENOENT", "EACCES"}

HandleBoots == [params : SeqsUpTo(BootParams, 1), style : {"padded"}]

HandleDisks ==
    [newfs : { <<[kind |-> "newfs", s |-> s, f |-> f]>> :
                  s \in Opt({58719232}), f \in Opt({4096}) },
     ufs_size : Opt({58719232, 58720000})]

----------------------------------------------------------------------------
(* Spec: one call of handle(), and the worker it may fork                  *)

resize_what == "/"

Init ==
    /\ args \in ArgLists
    /\ cfg \in Configs
    /\ pc = "handle"
    /\ resize_root = None /\ result = <<>> /\ devpth = None /\ fs_type = None
    /\ container = FALSE /\ cmdline = None /\ statret = None
    /\ dumpfs_res = None /\ gpart_res = None /\ skip = None
    /\ resize_cmd = <<>> /\ trace = <<>> /\ writable = None
    /\ outcome = "running" /\ child = "none"
    /\ disk = NoDisk /\ boot = NoBoot

\* lines 165-172
ResolveMode ==
    /\ pc = "handle"
    /\ resize_root' = EffectiveMode(args, cfg)
    /\ IF ~translate_bool(resize_root', {NOBLOCK})
       THEN Return(<< <<"debug", "Skipping module, resizing disabled", <<>>>> >>)
       ELSE Goto(<<>>, "get_mount_info")
    /\ UNCHANGED <<args, cfg, result, devpth, fs_type, container, cmdline,
                   statret, dumpfs_res, gpart_res, skip, resize_cmd, writable,
                   child, disk, boot>>

\* lines 175-188
GetMountInfo ==
    /\ pc = "get_mount_info"
    /\ \E r \in MountResults \cup {<<>>} :
          /\ result' = r
          /\ IF r = <<>>
             THEN /\ Return(<<Call("ensure_dir"), Call("get_mount_info"),
                              <<"warn", "Could not determine filesystem type",
                                <<resize_what>>>> >>)
                  /\ UNCHANGED <<devpth, fs_type>>
             ELSE /\ devpth' = r[1]
                  /\ fs_type' = r[2]
                  /\ Goto(<<Call("ensure_dir"), Call("get_mount_info"),
                            <<"debug", "resize_info", <<r[1], r[3], resize_what>>>> >>,
                          "is_container")
    /\ UNCHANGED <<args, cfg, resize_root, container, cmdline, statret,
                   dumpfs_res, gpart_res, skip, resize_cmd, writable, child,
                   disk, boot>>

\* lines 190-199; the resolver line 195 calls is taken to be the
\* rootdev_from_cmdline of lines 137-153
ResolveRoot ==
    /\ pc = "is_container"
    /\ \E c \in BOOLEAN :
       \E exists \in IF devpth = "/dev/root" THEN BOOLEAN ELSE {TRUE} :
       \E b \in IF NeedsCmdline(devpth, exists, c) THEN HandleBoots ELSE {boot} :
          LET calls == <<Call("is_container")>>
                       \o (IF devpth = "/dev/root" THEN <<Call("exists")>> ELSE <<>>)
          IN  /\ container' = c
              /\ boot' = b
              /\ IF NeedsCmdline(devpth, exists, c)
                 THEN /\ cmdline' = get_cmdline(b)
                      /\ devpth' = rootdev_from_cmdline(cmdline')
                      /\ IF devpth' = None
                         THEN Return(calls \o <<Call("get_cmdline"),
                                  <<"warn", "Unable to find device '/dev/root'", <<>>>> >>)
                         ELSE Goto(calls \o <<Call("get_cmdline"),
                                  <<"debug", "Converted /dev/root per kernel cmdline",
                                    <<devpth'>>>> >>, "stat")
                 ELSE /\ UNCHANGED <<cmdline, devpth>>
                      /\ Goto(calls, "stat")
    /\ UNCHANGED <<args, cfg, resize_root, result, fs_type, statret, dumpfs_res,
                   gpart_res, skip, resize_cmd, writable, child, disk>>

\* lines 201-212
Stat ==
    /\ pc = "stat"
    /\ \E st \in StatResults :
          /\ statret' = st
          /\ IF st \in {"ENOENT", "EACCES"}
             THEN LET policy == StatErrorPolicy(container, st) IN
                  IF policy = "raise"
                  THEN Raise(<<Call("stat")>>, "OSError")
                  ELSE Return(<<Call("stat"),
                                <<policy, "Device did not exist. cannot resize",
                                  <<devpth>>>> >>)
             ELSE Goto(<<Call("stat")>>, "access")
    /\ UNCHANGED <<args, cfg, resize_root, result, devpth, fs_type, container,
                   cmdline, dumpfs_res, gpart_res, skip, resize_cmd, writable,
                   child, disk, boot>>

\* lines 214-220
Access ==
    /\ pc = "access"
    /\ \E w \in BOOLEAN :
          /\ writable' = IF w THEN "True" ELSE "False"
          /\ IF ~w
             THEN Return(<<Call("access"),
                           <<Level(container), "not writable. cannot resize",
                             <<devpth>>>> >>)
             ELSE Goto(<<Call("access")>>, "isblk")
    /\ UNCHANGED <<args, cfg, resize_root, result, devpth, fs_type, container,
                   cmdline, statret, dumpfs_res, gpart_res, skip, resize_cmd,
                   child, disk, boot>>

\* lines 222-229
CheckDevice ==
    /\ pc = "isblk"
    /\ IF ~IsDevice(statret)
       THEN Return(<< <<Level(container), "not a block device. cannot resize",
                        <<devpth>>>> >>)
       ELSE Goto(<<>>, "can_skip_resize")
    /\ UNCHANGED <<args, cfg, resize_root, result, devpth, fs_type, container,
                   cmdline, statret, dumpfs_res, gpart_res, skip, resize_cmd,
                   writable, child, disk, boot>>

\* lines 231-235, with can_skip_resize and the pre-check it calls
PreCheck ==
    /\ pc = "can_skip_resize"
    /\ LET ufs == PrecheckFor(fs_type) # None IN
       \E d \in IF ufs THEN HandleDisks ELSE {disk} :
       \E dumpfs_ok \in IF ufs THEN BOOLEAN ELSE {TRUE} :
       \E gpart_ok \in IF ufs THEN BOOLEAN ELSE {TRUE} :
          LET dout == IF dumpfs_ok THEN DumpfsOutput(d) ELSE Failed
              gout == IF gpart_ok THEN GpartOutput(d) ELSE Failed
              gp   == ufs /\ ReachesGpart(dout, devpth)
              r    == can_skip_resize(fs_type, dout, devpth, gout)
              calls == <<Call("can_skip_resize")>>
                       \o (IF ufs THEN <<Call("dumpfs")>> ELSE <<>>)
                       \o (IF gp THEN <<Call("gpart")>> ELSE <<>>)
          IN  /\ disk' = d
              /\ dumpfs_res' = IF ufs THEN dout ELSE dumpfs_res
              /\ gpart_res' = IF gp THEN gout ELSE gpart_res
              /\ skip' = r
              /\ IF r = "True"
                 THEN Return(calls \o << <<"debug", "Skip resize filesystem type",
                                           <<fs_type, resize_what>>>> >>)
                 ELSE IF r = "False" THEN Goto(calls, "dispatch")
                 ELSE Raise(calls, r)
    /\ UNCHANGED <<args, cfg, resize_root, result, devpth, fs_type, container,
                   cmdline, statret, resize_cmd, writable, child, boot>>

\* lines 237-250
Dispatch ==
    /\ pc = "dispatch"
    /\ LET resizer == LookupResizer(fs_type) IN
       IF resizer = None
       THEN /\ Return(<< <<"warn", "Not resizing unknown filesystem type",
                           <<fs_type, resize_what>>>> >>)
            /\ UNCHANGED resize_cmd
       ELSE /\ resize_cmd' = CallResizer(resizer, resize_what, devpth)
            /\ Goto(<< <<"debug", "Resizing using", resize_cmd'>> >>, "execute")
    /\ UNCHANGED <<args, cfg, resize_root, result, devpth, fs_type, container,
                   cmdline, statret, dumpfs_res, gpart_res, skip, writable,
                   child, disk, boot>>

\* lines 252-260: fork a worker, or launch the command and wait for it
Execute ==
    /\ pc = "execute"
    /\ IF IsNoblock(resize_root)
       THEN /\ child' = "forked"
            /\ Goto(<<Call("fork_cb")>>, "final_log")
       ELSE /\ UNCHANGED child
            /\ Goto(<< <<"subp", "start", resize_cmd>> >>, "do_resize")
    /\ UNCHANGED <<args, cfg, resize_root, result, devpth, fs_type, container,
                   cmdline, statret, dumpfs_res, gpart_res, skip, resize_cmd,
                   writable, disk, boot>>

\* lines 269-274, inline: the command ends and do_resize returns or raises
InlineResize ==
    /\ pc = "do_resize"
    /\ \E ok \in BOOLEAN :
          LET r == do_resize(ok, resize_cmd)
              ended == << <<"subp", IF ok THEN "exit ok" ELSE "exit failed",
                            resize_cmd>> >>
          IN  IF r.raises
              THEN Raise(ended \o r.log, "ProcessExecutionError")
              ELSE Goto(ended \o r.log, "final_log")
    /\ UNCHANGED <<args, cfg, resize_root, result, devpth, fs_type, container,
                   cmdline, statret, dumpfs_res, gpart_res, skip, resize_cmd,
                   writable, child, disk, boot>>

\* lines 262-266
FinalLog ==
    /\ pc = "final_log"
    /\ Return(<< <<"debug",
                   (IF IsNoblock(resize_root) THEN "Resizing (via forking)"
                    ELSE "Resized") \o " root filesystem",
                   <<fs_type, resize_root>>>> >>)
    /\ UNCHANGED <<args, cfg, resize_root, result, devpth, fs_type, container,
                   cmdline, statret, dumpfs_res, gpart_res, skip, resize_cmd,
                   writable, child, disk, boot>>

\* the worker util.fork_cb forked launches the command
ChildStart ==
    /\ child = "forked"
    /\ child' = "running"
    /\ trace' = Append(trace, <<"subp", "start", resize_cmd>>)
    /\ UNCHANGED <<args, cfg, resize_root, pc, result, devpth, fs_type,
                   container, cmdline, statret, dumpfs_res, gpart_res, skip,
                   resize_cmd, writable, outcome, disk, boot>>

\* the worker's command ends: do_resize logs a failure, fork_cb logs what
\* do_resize raised, and the worker exits
ChildExit ==
    /\ child = "running"
    /\ \E ok \in BOOLEAN :
          LET r == do_resize(ok, resize_cmd) IN
          /\ child' = IF r.raises THEN "failed" ELSE "ok"
          /\ trace' = trace
                \o << <<"subp", IF ok THEN "exit ok" ELSE "exit failed", resize_cmd>> >>
                \o r.log
                \o (IF r.raises
                    THEN << <<"logexc", "Failed forking and calling callback", <<>>>> >>
                    ELSE <<>>)
    /\ UNCHANGED <<args, cfg, resize_root, pc, result, devpth, fs_type,
                   container, cmdline, statret, dumpfs_res, gpart_res, skip,
                   resize_cmd, writable, outcome, disk, boot>>

Next ==
    \/ ResolveMode
    \/ GetMountInfo
    \/ ResolveRoot
    \/ Stat
    \/ Access
    \/ CheckDevice
    \/ PreCheck
    \/ Dispatch
    \/ Execute
    \/ InlineResize
    \/ FinalLog
    \/ ChildStart
    \/ ChildExit

Spec == Init /\ [][Next]_vars

----------------------------------------------------------------------------
(* Properties of handle(), checked under Spec                              *)

InTrace(e) == \E i \in 1..Len(trace) : trace[i] = e

HasEvent(kind, text) ==
    \E i \in 1..Len(trace) : trace[i][1] = kind /\ trace[i][2] = text

\* the place of the first such event (only used where HasEvent holds)
Pos(kind, text) ==
    CHOOSE i \in 1..Len(trace) :
        /\ trace[i][1] = kind /\ trace[i][2] = text
        /\ \A j \in 1..(i - 1) : ~(trace[j][1] = kind /\ trace[j][2] = text)

\* the resize command was launched inline, or handed to a background worker
Launched == HasEvent("subp", "start") \/ HasEvent("call", "fork_cb")

Validated == statret \in {"S_IFBLK", "S_IFCHR"} /\ writable = "True"

\* C1: the resize command is launched only after, in this order, the mode was
\* found enabled, mount info was obtained, the device passed validation, the
\* pre-check answered false and a dispatch rule matched; the pre-check and
\* the dispatch table are only ever consulted for a validated device.
C1_LaunchIsGated ==
    /\ Launched =>
          /\ resize_root \in {"True", NOBLOCK}
          /\ result # <<>>
          /\ Validated
          /\ skip = "False"
          /\ resize_cmd # <<>>
          /\ HasEvent("call", "get_mount_info") /\ HasEvent("call", "stat")
          /\ HasEvent("call", "access") /\ HasEvent("call", "can_skip_resize")
          /\ HasEvent("debug", "Resizing using")
          /\ Pos("call", "get_mount_info") < Pos("call", "stat")
          /\ Pos("call", "stat") < Pos("call", "access")
          /\ Pos("call", "access") < Pos("call", "can_skip_resize")
          /\ Pos("call", "can_skip_resize") < Pos("debug", "Resizing using")
          /\ \A i \in 1..Len(trace) :
                (trace[i][1] = "subp" \/ trace[i] = Call("fork_cb"))
                    => Pos("debug", "Resizing using") < i
    /\ ( \/ pc \in {"can_skip_resize", "dispatch"}
         \/ HasEvent("call", "can_skip_resize")
         \/ HasEvent("call", "dumpfs")
         \/ HasEvent("warn", "Not resizing unknown filesystem type")
         \/ skip # None
         \/ resize_cmd # <<>> ) => Validated

C1_Witness ==
    /\ HasEvent("subp", "start") /\ outcome = "returned"
    /\ fs_type = "ext4" /\ devpth = "/dev/vda1"

C3_NonBlockingMode ==
    resize_root = NOBLOCK =>
       /\ pc # "do_resize"
       /\ pc = "final_log" => (child # "none" /\ ENABLED FinalLog)
       /\ child # "none" => outcome \in {"running", "returned"}
       /\ (child # "none" /\ pc = "done") =>
             /\ outcome = "returned"
             /\ InTrace(<<"debug", "Resizing (via forking) root filesystem",
                          <<fs_type, resize_root>>>>)
             /\ ~HasEvent("debug", "Resized root filesystem")
       /\ HasEvent("subp", "start") => child \in {"running", "ok", "failed"}
       /\ child = "failed" =>
             InTrace(<<"logexc", "Failed to resize filesystem", resize_cmd>>)

C3_Witness ==
    /\ resize_root = NOBLOCK /\ outcome = "returned" /\ child = "running"
    /\ trace[Len(trace)][2] = "Resizing (via forking) root filesystem"

BtrfsTypes == {"btrfs", "Btrfs"}
ExtTypes == {"ext2", "ext3", "ext4", "EXT4"}
XfsTypes == {"xfs", "XFS"}
UfsTypes == {"ufs", "UFS"}
UnknownTypes == {"zfs", "vfat", "ex", "next"}

\* dispatch has been run: the pre-check answered false and handle() moved on
Dispatched == skip = "False" /\ pc \notin {"can_skip_resize", "dispatch"}

\* C4: the first rule whose prefix the lower-cased type starts with builds the
\* command: btrfs filesystem resize max <mount point> for btrfs, resize2fs
\* <device> for every ext type, xfs_growfs <device> for xfs, growfs <device>
\* for ufs, whatever the case of the type; a type no prefix matches gets
\* a warning, a normal return and no command.
C4_Dispatch ==
    Dispatched =>
       /\ fs_type \in BtrfsTypes =>
             resize_cmd = <<"btrfs", "filesystem", "resize", "max", "/">>
       /\ fs_type \in ExtTypes => resize_cmd = <<"resize2fs", devpth>>
       /\ fs_type \in XfsTypes => resize_cmd = <<"xfs_growfs", devpth>>
       /\ fs_type \in UfsTypes => resize_cmd = <<"growfs", devpth>>
       /\ fs_type \in UnknownTypes =>
             /\ resize_cmd = <<>>
             /\ trace[Len(trace)] = <<"warn", "Not resizing unknown filesystem type",
                                      <<fs_type, "/">>>>
             /\ outcome = "returned" /\ pc = "done"
             /\ ~Launched
       /\ fs_type \notin UnknownTypes =>
             /\ InTrace(<<"debug", "Resizing using", resize_cmd>>)
             /\ ~HasEvent("warn", "Not resizing unknown filesystem type")
       /\ resize_cmd # <<>> =>
             \E i \in 1..Len(RESIZE_FS_PREFIXES_CMDS) :
                /\ startswith(lower(fs_type), RESIZE_FS_PREFIXES_CMDS[i][1])
                /\ \A j \in 1..(i - 1) :
                      ~startswith(lower(fs_type), RESIZE_FS_PREFIXES_CMDS[j][1])
                /\ resize_cmd = CallResizer(RESIZE_FS_PREFIXES_CMDS[i][2], "/", devpth)

C4_Witness ==
    /\ fs_type = "EXT4" /\ resize_cmd = <<"resize2fs", "/dev/da0p2">>
    /\ HasEvent("subp", "exit ok")

\* the tools ran and printed what is on the disk
ToolsRan == dumpfs_res = DumpfsOutput(disk) /\ gpart_res = GpartOutput(disk)

\* C6: when the -s value, the -f value or the freebsd-ufs line is absent, the
\* pre-check answers false and handle() goes on to dispatch, without an error.
C6_AbsentMeansNoSkip ==
    ( /\ skip # None /\ PrecheckFor(fs_type) # None /\ ToolsRan
      /\ \/ disk.newfs[1].s = NoInt
         \/ disk.newfs[1].f = NoInt
         \/ disk.ufs_size = NoInt )
    => /\ skip = "False"
       /\ outcome \in {"running", "returned"}

\* C7: a stat that fails with ENOENT ends handle() with a normal return, a
\* debug record in a container and a warning outside, and no pre-check and
\* no resize command; any other stat error leaves handle() as that error,
\* in a container or not.
C7_StatFailure ==
    /\ statret = "ENOENT" =>
          /\ pc = "done" /\ outcome = "returned"
          /\ trace[Len(trace)] =
                <<IF container THEN "debug" ELSE "warn",
                  "Device did not exist. cannot resize", <<devpth>>>>
          /\ ~HasEvent("call", "can_skip_resize") /\ skip = None
          /\ ~HasEvent("call", "dumpfs")
          /\ ~Launched /\ resize_cmd = <<>> /\ child = "none"
    /\ statret = "EACCES" =>
          /\ pc = "done" /\ outcome = "OSError"
          /\ trace[Len(trace)] = Call("stat")
          /\ ~Launched /\ skip = None

C7_Witness == statret = "EACCES" /\ container /\ outcome = "OSError"

\* C9: the effective mode is args[0] when there are arguments and the
\* configured resize_rootfs (default true) otherwise; when it is false
\* handle() logs one debug record and returns having created no directory,
\* asked for no mount info, stat-ed no device and run no pre-check or command.
C9_DisabledDoesNothing ==
    /\ resize_root # None =>
          resize_root = IF args # <<>> THEN args[1]
                        ELSE IF cfg # <<>> THEN cfg[1][2] ELSE "True"
    /\ resize_root = "False" =>
          /\ pc = "done" /\ outcome = "returned"
          /\ trace = << <<"debug", "Skipping module, resizing disabled", <<>>>> >>
          /\ result = <<>> /\ devpth = None /\ fs_type = None
          /\ statret = None /\ writable = None /\ skip = None
          /\ dumpfs_res = None /\ gpart_res = None /\ cmdline = None
          /\ resize_cmd = <<>> /\ child = "none"
    /\ (resize_root \in {"True", NOBLOCK} /\ pc = "done")
          => HasEvent("call", "ensure_dir")

C9_Witness ==
    /\ args = <<"False">> /\ cfg = << <<"resize_rootfs", NOBLOCK>> >>
    /\ resize_root = "False" /\ pc = "done"

----------------------------------------------------------------------------
(* Properties of _can_skip_resize_ufs, checked under SpecUfs               *)

\* the values of option o ("s" or "f") the lines of dumpfs -m carry, in order
RECURSIVE OptionValues(_, _)
OptionValues(ls, o) ==
    IF ls = <<>> THEN <<>>
    ELSE LET v == IF o = "s" THEN Head(ls).s ELSE Head(ls).f
         IN  v \o OptionValues(Tail(ls), o)

AllParse(d) == \A i \in 1..Len(d.newfs) : d.newfs[i].kind # "bad"

\* the pre-check returned, for a disk whose dumpfs lines all parse and whose
\* device path names a partition
UfsReturned == pc = "ufs_done" /\ ToolsRan /\ AllParse(disk)

\* the comparison the pre-check is to make, as "True" or "False"
SkipIff(S, F, E) ==
    IF E - (E % (F \div 512)) = S THEN "True" ELSE "False"

\* C5: with -s = S, -f = F (a positive multiple of 512) and a freebsd-ufs line
\* of E sectors, the pre-check returns true exactly when
\* E - (E mod (F / 512)) = S: true for S = 58719232, F = 4096, E = 58719232,
\* and false for the same S and F with E = 58720000.
C5_SkipIffNormalizedEqual ==
    UfsReturned =>
       LET ss == OptionValues(disk.newfs, "s")
           fs == OptionValues(disk.newfs, "f")
       IN  ( /\ Len(ss) = 1 /\ Len(fs) = 1 /\ disk.ufs_size # NoInt
             /\ fs[1] > 0 /\ fs[1] % 512 = 0 ) =>
              /\ skip = SkipIff(ss[1], fs[1], disk.ufs_size[1])
              /\ (ss[1] = 58719232 /\ fs[1] = 4096 /\ disk.ufs_size[1] = 58719232)
                    => skip = "True"
              /\ (ss[1] = 58719232 /\ fs[1] = 4096 /\ disk.ufs_size[1] = 58720000)
                    => skip = "False"

C5_Witness ==
    /\ UfsReturned /\ skip = "True"
    /\ disk.newfs = <<[kind |-> "newfs", s |-> <<58719232>>, f |-> <<4096>>]>>
    /\ disk.ufs_size = <<58719239>>

NewfsOnly(d) == \A i \in 1..Len(d.newfs) : d.newfs[i].kind = "newfs"

\* C10 as claimed: with two or more non-comment lines, the values compared
\* are those of the first such line, and the result is what that line alone
\* gives.
C10_FirstLineOnly ==
    ( /\ UfsReturned /\ Len(disk.newfs) >= 2 /\ NewfsOnly(disk)
      /\ disk.newfs[1].s # NoInt /\ disk.newfs[1].f # NoInt
      /\ disk.newfs[1].f[1] > 0 /\ disk.ufs_size # NoInt
      /\ \A i \in 1..Len(disk.newfs) :
            disk.newfs[i].f = NoInt \/ disk.newfs[i].f[1] > 0 )
    => skip = SkipIff(disk.newfs[1].s[1], disk.newfs[1].f[1], disk.ufs_size[1])

\* C10, amended: every non-comment line is read, and for each of -s and -f
\* the value compared is that of the last non-comment line that carries the
\* option, so a later line overrides an earlier one.
C10_LastValueWins ==
    UfsReturned =>
       LET ss == OptionValues(disk.newfs, "s")
           fs == OptionValues(disk.newfs, "f")
       IN  ( /\ Len(disk.newfs) >= 2
             /\ ss # <<>> /\ fs # <<>> /\ disk.ufs_size # NoInt
             /\ fs[Len(fs)] > 0 /\ fs[Len(fs)] % 512 = 0 ) =>
              skip = SkipIff(ss[Len(ss)], fs[Len(fs)], disk.ufs_size[1])

C10_Witness ==
    /\ UfsReturned /\ skip = "True"
    /\ disk.newfs = <<[kind |-> "newfs", s |-> <<58719232>>, f |-> <<512>>],
                      [kind |-> "newfs", s |-> <<58720000>>, f |-> NoInt]>>
    /\ disk.ufs_size = <<58720000>>

----------------------------------------------------------------------------
(* Properties of rootdev_from_cmdline, checked under SpecRootdev           *)

\* the places of the boot parameters whose key is root
RootParams(b) ==
    {i \in 1..Len(b.params) : Len(b.params[i]) = 2 /\ b.params[i][1] = "root"}

\* C8: the value V of the first root= token is returned unchanged when it
\* starts with /dev/, as /dev/disk/by-label/<name> for LABEL=<name>, as
\* /dev/disk/by-uuid/<id> for UUID=<id> and as /dev/V otherwise; without a
\* root= token the result is None.
C8_RootdevMapping ==
    pc = "rootdev_done" =>
       IF RootParams(boot) = {} THEN devpth = None
       ELSE LET first == CHOOSE i \in RootParams(boot) :
                             \A j \in RootParams(boot) : i <= j
                V == boot.params[first][2]
            IN  /\ devpth # None
                /\ V = "/dev/vda1" => devpth = "/dev/vda1"
                /\ V = "LABEL=cloudimg-rootfs"
                      => devpth = "/dev/disk/by-label/cloudimg-rootfs"
                /\ V = "UUID=9e2b" => devpth = "/dev/disk/by-uuid/9e2b"
                /\ V = "da0p2" => devpth = "/dev/da0p2"
                /\ V = "" => devpth = "/dev/"
                /\ V = "LABEL" => devpth = "/dev/LABEL"
                /\ V = "/dev" => devpth = "/dev//dev"
                /\ V \in {"/dev/vda1", "LABEL=cloudimg-rootfs", "UUID=9e2b",
                          "da0p2", "", "LABEL", "/dev"}

C8_Witness ==
    /\ pc = "rootdev_done"
    /\ boot.params = << <<"root", "LABEL=cloudimg-rootfs">>, <<"root", "/dev/vda1">> >>
    /\ boot.style = "padded"
    /\ devpth = "/dev/disk/by-label/cloudimg-rootfs"

=============================================================================
